---- MODULE Spec2Model ----
(***************************************************************************)
(* Pattern-editing state engine of the pegboard design tool (src/store.ts) *)
(* together with the coordinate codec (src/utils/coords.ts).               *)
(*                                                                         *)
(* JavaScript Map objects are modelled as heap objects: `cells` and the    *)
(* entries of `history` are references into `heap`, whose values are the   *)
(* contents of the maps (functions from key to colour id).  A string key   *)
(* is a sequence of one-character strings.  The result of Map.get is a set *)
(* with at most one element: {} stands for undefined.  The insertion order *)
(* of a Map is not modelled: no operation of the store reads it.           *)
(***************************************************************************)
EXTENDS Integers, Sequences, FiniteSets, Bags, TLC

VARIABLES board, palette, metadata, selectedColorId, activeTool, viewMode,
          heap, cells, history, historyPointer, last, track

storeVars == <<board, palette, metadata, selectedColorId, activeTool, viewMode,
               heap, cells, history, historyPointer>>
vars == <<board, palette, metadata, selectedColorId, activeTool, viewMode,
          heap, cells, history, historyPointer, last, track>>

(***************************************************************************)
(* Bounds of the model.                                                    *)
(***************************************************************************)
\* number of columns and rows of the board the editing sessions run on
Cols == 2
Rows == 2
\* history.length is capped: an edit that would grow it further is not taken
MaxHistory == 3
\* number of engine calls of a session that is run a second time
MaxTrace == 3

\* the zoom steps of 0.1 the 2D editor is taken away from scale 1, either way
MaxZoom == 1

(***************************************************************************)
(* Coordinate codec (src/utils/coords.ts).                                 *)
(***************************************************************************)
DigitChars == <<"0", "1", "2", "3", "4", "5", "6", "7", "8", "9">>

RECURSIVE NatToString(_)
NatToString(n) ==
    IF n < 10 THEN <<DigitChars[n + 1]>>
    ELSE NatToString(n \div 10) \o <<DigitChars[(n % 10) + 1]>>

\* the template literal `${x}` of an integer
NumberToString(n) ==
    IF n < 0 THEN <<"-">> \o NatToString(0 - n) ELSE NatToString(n)

\* a key without the separator
makeKeyNoComma(x, y) == NumberToString(x) \o NumberToString(y)

makeKey(x, y) == NumberToString(x) \o <<",">> \o NumberToString(y)

\* values of type number | undefined that the decoder produces
NumberValue(n) == [kind |-> "number", value |-> n]
NaN == [kind |-> "NaN", value |-> 0]
Undefined == [kind |-> "undefined", value |-> 0]

\* key.split(','): the pieces of the string between its commas
RECURSIVE Split(_)
Split(s) ==
    IF \A i \in 1 .. Len(s) : s[i] # ","
    THEN <<s>>
    ELSE LET i == CHOOSE j \in 1 .. Len(s) :
                      s[j] = "," /\ \A h \in 1 .. j - 1 : s[h] # ","
         IN  <<SubSeq(s, 1, i - 1)>> \o Split(SubSeq(s, i + 1, Len(s)))

IsDigits(s) == \A i \in 1 .. Len(s) : \E d \in 1 .. 10 : DigitChars[d] = s[i]

DigitValue(c) == (CHOOSE d \in 1 .. 10 : DigitChars[d] = c) - 1

RECURSIVE DigitsToNat(_)
DigitsToNat(s) ==
    IF s = <<>> THEN 0
    ELSE DigitsToNat(SubSeq(s, 1, Len(s) - 1)) * 10 + DigitValue(s[Len(s)])

\* Number(s) for a string of digits, "-", "," and letters: the empty string
\* is 0, an optionally negated string of digits is that integer, anything
\* else is NaN (strings with white space, ".", "+", exponents or radix
\* prefixes are not among the inputs of the model)
Number(s) ==
    IF s = <<>> THEN NumberValue(0)
    ELSE IF IsDigits(s) THEN NumberValue(DigitsToNat(s))
    ELSE IF s[1] = "-" /\ Len(s) > 1 /\ IsDigits(Tail(s))
    THEN NumberValue(0 - DigitsToNat(Tail(s)))
    ELSE NaN

\* const [x, y] = key.split(',').map(Number)
parseKey(key) ==
    LET parts == Split(key)
    IN  [x |-> Number(parts[1]),
         y |-> IF Len(parts) >= 2 THEN Number(parts[2]) ELSE Undefined]

(***************************************************************************)
(* Map operations.                                                         *)
(***************************************************************************)
EmptyMap == [k \in {} |-> ""]

MapGet(m, k) == IF k \in DOMAIN m THEN {m[k]} ELSE {}

MapSet(m, k, v) == [kk \in (DOMAIN m) \cup {k} |-> IF kk = k THEN v ELSE m[kk]]

MapDelete(m, k) == [kk \in (DOMAIN m) \ {k} |-> m[kk]]

\* JavaScript truthiness of a value of type string | undefined
Truthy(v) == v # {} /\ v # {""}

\* Object.fromEntries(map) and new Map(Object.entries(record)): a record
\* with string keys holds the same key/value pairs as the map
mapToRecord(map) == [k \in DOMAIN map |-> map[k]]
recordToMap(record) == [k \in DOMAIN record |-> record[k]]

(***************************************************************************)
(* Types and defaults.                                                     *)
(***************************************************************************)
ToolType == {"pencil", "eraser", "fill", "line"}

ViewModes == {"2D", "3D", "XR"}

DEFAULT_PALETTE ==
    <<"red", "orange", "yellow", "green", "blue",
      "purple", "pink", "white", "black", "brown">>

\* the board of the editing sessions (DEFAULT_BOARD scaled down)
DEFAULT_BOARD == [cols |-> Cols, rows |-> Rows]

InitialMetadata ==
    [title |-> "My Pattern", author |-> "Artist", difficulty |-> "Easy", created |-> 0]

(***************************************************************************)
(* Inputs.                                                                 *)
(***************************************************************************)
\* colour ids handed to setColor: a palette id and the empty string
ColorIds == {"red", ""}

\* grid positions handed to setCell and fill: two corners of the board and
\* a position past its right edge
Coords == {<<0, 0>>, <<Cols - 1, Rows - 1>>, <<Cols, 0>>}

\* start positions handed to fill in the editing sessions
FillCoords == {<<0, 0>>, <<Cols, 0>>}

LoadedMetadata ==
    [title |-> "Loaded", author |-> "Teacher", difficulty |-> "Hard", created |-> 1]

\* the patterns handed to loadPattern in the editing sessions
Patterns ==
    { [id |-> "blank", metadata |-> LoadedMetadata, cells |-> EmptyMap],
      [id |-> "row", metadata |-> LoadedMetadata,
       cells |-> [k \in {makeKey(0, 0), makeKey(1, 0)} |-> "blue"]] }

\* what an earlier session left in storage (partialize), or nothing
Persisted ==
    { [present |-> FALSE, cells |-> EmptyMap, metadata |-> InitialMetadata],
      [present |-> TRUE, cells |-> [k \in {makeKey(1, 0)} |-> "red"],
       metadata |-> LoadedMetadata] }

(***************************************************************************)
(* Heap of Map objects.                                                    *)
(***************************************************************************)
\* addresses of Map objects; address 0 is the Map the store is created with
Refs == 0 .. (MaxHistory + 1)

Range(s) == {s[i] : i \in 1 .. Len(s)}

\* a new Map takes the least address above 0 that no retained object has:
\* the heap holds the objects reachable from the store, and the address of
\* an object that became unreachable is used again
NewRef(retained) ==
    CHOOSE r \in (Refs \ {0}) \ retained : \A q \in (Refs \ {0}) \ retained : r <= q

\* contents of the grid the store publishes
Grid == heap[cells]

\* contents of the history snapshots
Snapshots == [i \in 1 .. Len(history) |-> heap[history[i]]]

\* what a reader of the store sees
View ==
    [cells |-> Grid, history |-> Snapshots, historyPointer |-> historyPointer,
     selectedColorId |-> selectedColorId, activeTool |-> activeTool,
     viewMode |-> viewMode, metadata |-> metadata, board |-> board,
     palette |-> palette, cellsRef |-> cells, historyRefs |-> history]

\* the call that produced the current state: its name and arguments, the
\* pointer and the history length it found, and whether it wrote to the store
\* (changed)
Call(op, x, y, arg) ==
    [op |-> op, x |-> x, y |-> y, arg |-> arg,
     prePointer |-> historyPointer, preLength |-> Len(history),
     changed |-> (<<heap, cells, history, historyPointer>>' #
                  <<heap, cells, history, historyPointer>>)]


(***************************************************************************)
(* Initial state (src/store.ts:44-58) merged with the persisted state      *)
(* (src/store.ts:176-180).                                                 *)
(***************************************************************************)
InitStore ==
    \E persisted \in Persisted :
        /\ board = DEFAULT_BOARD
        /\ palette = DEFAULT_PALETTE
        /\ metadata = IF persisted.present THEN persisted.metadata ELSE InitialMetadata
        /\ selectedColorId = DEFAULT_PALETTE[1]
        /\ activeTool = "pencil"
        /\ viewMode = "2D"
        /\ cells = 0
        /\ history = <<1>>
        /\ heap = [r \in {0, 1} |->
                     IF r = 0 /\ persisted.present
                     THEN recordToMap(persisted.cells) ELSE EmptyMap]
        /\ historyPointer = 0

InitLast ==
    [op |-> "init", x |-> 0, y |-> 0, arg |-> "", prePointer |-> 0, preLength |-> 1,
     changed |-> FALSE]

(***************************************************************************)
(* Actions (src/store.ts:60-168).                                          *)
(***************************************************************************)
\* push(ref) on the whole history, without the slice
PushHistoryNoSlice(ref) == history \o <<ref>>

\* history.slice(0, historyPointer + 1) followed by push(ref)
PushHistory(ref) == SubSeq(history, 1, historyPointer + 1) \o <<ref>>

\* no new Map: the live grid itself is written to
NewMapShared == cells

\* new Map(...): the address of the new object, given the history kept
NewMap == NewRef(Range(SubSeq(history, 1, historyPointer + 1)))

\* Publish with the pointer set to the new length
PublishPointerOffByOne(ref, contents) ==
    /\ Len(PushHistory(ref)) <= MaxHistory
    /\ cells' = ref
    /\ history' = PushHistory(ref)
    /\ historyPointer' = Len(PushHistory(ref))
    /\ heap' = [r \in Range(PushHistory(ref)) |->
                  IF r = ref THEN contents ELSE heap[r]]

\* set({cells, history, historyPointer}) of setCell, fill and clearBoard
Publish(ref, contents) ==
    /\ Len(PushHistory(ref)) <= MaxHistory
    /\ cells' = ref
    /\ history' = PushHistory(ref)
    /\ historyPointer' = Len(PushHistory(ref)) - 1
    /\ heap' = [r \in Range(PushHistory(ref)) |->
                  IF r = ref THEN contents ELSE heap[r]]

\* a new value that depends on the view mode: 3D erases
setCellNewValByView ==
    IF activeTool = "eraser" \/ viewMode = "3D" THEN {} ELSE {selectedColorId}

\* a new value for which the line tool erases as the eraser does
setCellNewValLineErases ==
    IF activeTool \in {"eraser", "line"} THEN {} ELSE {selectedColorId}

setCellNewVal == IF activeTool = "eraser" THEN {} ELSE {selectedColorId}

setCellContents(key) ==
    IF Truthy(setCellNewVal)
    THEN MapSet(Grid, key, selectedColorId)
    ELSE MapDelete(Grid, key)

\* a setCell without the early return
setCellNeverReturnsEarly(key) == FALSE

\* if (currentVal === newVal) return
setCellReturnsEarly(key) == MapGet(Grid, key) = setCellNewVal

setCell(x, y) ==
    /\ UNCHANGED <<board, palette, metadata, selectedColorId, activeTool, viewMode>>
    /\ IF setCellReturnsEarly(makeKey(x, y))
       THEN UNCHANGED <<heap, cells, history, historyPointer>>
       ELSE Publish(NewMap, setCellContents(makeKey(x, y)))

\* pushes that include the diagonal neighbours
fillNeighboursDiagonal(x, y) ==
    << <<x + 1, y>>, <<x - 1, y>>, <<x, y + 1>>, <<x, y - 1>>,
       <<x + 1, y + 1>>, <<x - 1, y - 1>> >>

\* the four neighbours pushed on the work list, in the order of the pushes
fillNeighbours(x, y) == << <<x + 1, y>>, <<x - 1, y>>, <<x, y + 1>>, <<x, y - 1>> >>

\* a pass that has neither the visited check nor the colour check
fillTakeRevisits(newCells, queue, visited, targetColor, i, pushes) ==
    LET top  == queue[i]
        rest == SubSeq(queue, 1, i - 1) \o SubSeq(queue, i + 1, Len(queue))
        x    == top[1]
        y    == top[2]
        key  == makeKey(x, y)
    IN  IF x < 0 \/ x >= board.cols \/ y < 0 \/ y >= board.rows
        THEN [newCells |-> newCells, queue |-> rest, visited |-> visited,
              assigned |-> {}]
        ELSE [newCells |-> MapSet(newCells, key, selectedColorId),
              queue |-> rest \o pushes,
              visited |-> visited \cup {key}, assigned |-> {key}]

\* a pass of a fill that colours two cells at most
fillTakeTwoCells(newCells, queue, visited, targetColor, i, pushes) ==
    LET top  == queue[i]
        rest == SubSeq(queue, 1, i - 1) \o SubSeq(queue, i + 1, Len(queue))
        x    == top[1]
        y    == top[2]
        key  == makeKey(x, y)
        skip == [newCells |-> newCells, queue |-> rest, visited |-> visited,
                 assigned |-> {}]
    IN  IF key \in visited THEN skip
        ELSE IF x < 0 \/ x >= board.cols \/ y < 0 \/ y >= board.rows THEN skip
        ELSE IF MapGet(newCells, key) = targetColor /\ Cardinality(visited) < 2
        THEN [newCells |-> MapSet(newCells, key, selectedColorId),
              queue |-> rest \o pushes,
              visited |-> visited \cup {key}, assigned |-> {key}]
        ELSE skip

\* one pass through the body of the while loop: the position at index i of
\* the work list is taken off it (the code takes the last one, queue.pop())
\* and, if it is a cell of the board with the target colour that was not
\* visited, it is coloured and `pushes` is put on the work list
fillTake(newCells, queue, visited, targetColor, i, pushes) ==
    LET top  == queue[i]
        rest == SubSeq(queue, 1, i - 1) \o SubSeq(queue, i + 1, Len(queue))
        x    == top[1]
        y    == top[2]
        key  == makeKey(x, y)
        skip == [newCells |-> newCells, queue |-> rest, visited |-> visited,
                 assigned |-> {}]
    IN  IF key \in visited THEN skip
        ELSE IF x < 0 \/ x >= board.cols \/ y < 0 \/ y >= board.rows THEN skip
        ELSE IF MapGet(newCells, key) = targetColor
        THEN [newCells |-> MapSet(newCells, key, selectedColorId),
              queue |-> rest \o pushes,
              visited |-> visited \cup {key},
              assigned |-> {key}]
        ELSE skip

\* the pass the code makes: queue.pop() and the four pushes in their order
fillStep(newCells, queue, visited, targetColor) ==
    fillTake(newCells, queue, visited, targetColor, Len(queue),
             fillNeighbours(queue[Len(queue)][1], queue[Len(queue)][2]))

RECURSIVE fillLoop(_, _, _, _)
fillLoop(newCells, queue, visited, targetColor) ==
    IF queue = <<>> THEN newCells
    ELSE LET s == fillStep(newCells, queue, visited, targetColor)
         IN  fillLoop(s.newCells, s.queue, s.visited, targetColor)

\* fill without the early return
fillNeverReturnsEarly(targetColor) == FALSE

\* if (targetColor === selectedColorId) return
fillReturnsEarly(targetColor) == targetColor = {selectedColorId}

fill(startX, startY) ==
    /\ UNCHANGED <<board, palette, metadata, selectedColorId, activeTool, viewMode>>
    /\ LET targetColor == MapGet(Grid, makeKey(startX, startY))
       IN  IF fillReturnsEarly(targetColor)
           THEN UNCHANGED <<heap, cells, history, historyPointer>>
           ELSE Publish(NewMap, fillLoop(Grid, << <<startX, startY>> >>, {}, targetColor))

\* clearBoard that returns early when the grid is already empty
clearBoardSkipsWhenEmpty ==
    /\ UNCHANGED <<board, palette, metadata, selectedColorId, activeTool, viewMode>>
    /\ IF Grid = EmptyMap
       THEN UNCHANGED <<heap, cells, history, historyPointer>>
       ELSE Publish(NewMap, EmptyMap)

clearBoard ==
    /\ UNCHANGED <<board, palette, metadata, selectedColorId, activeTool, viewMode>>
    /\ Publish(NewMap, EmptyMap)

setColor(id) ==
    /\ selectedColorId' = id
    /\ UNCHANGED <<board, palette, metadata, activeTool, viewMode,
                   heap, cells, history, historyPointer>>

setTool(tool) ==
    /\ activeTool' = tool
    /\ UNCHANGED <<board, palette, metadata, selectedColorId, viewMode,
                   heap, cells, history, historyPointer>>

setViewMode(mode) ==
    /\ viewMode' = mode
    /\ UNCHANGED <<board, palette, metadata, selectedColorId, activeTool,
                   heap, cells, history, historyPointer>>

\* undo that drops the snapshots after the one it goes back to
undoDropsRedo ==
    /\ UNCHANGED <<board, palette, metadata, selectedColorId, activeTool, viewMode>>
    /\ IF historyPointer > 0
       THEN /\ cells' = history[(historyPointer - 1) + 1]
            /\ historyPointer' = historyPointer - 1
            /\ history' = SubSeq(history, 1, (historyPointer - 1) + 1)
            /\ heap' = [r \in Range(SubSeq(history, 1, (historyPointer - 1) + 1)) |->
                          heap[r]]
       ELSE UNCHANGED <<heap, cells, history, historyPointer>>

\* undo that wraps around from the first snapshot to the last one
undoWraps ==
    /\ UNCHANGED <<board, palette, metadata, selectedColorId, activeTool, viewMode,
                   history>>
    /\ IF historyPointer > 0
       THEN /\ cells' = history[(historyPointer - 1) + 1]
            /\ historyPointer' = historyPointer - 1
            /\ heap' = [r \in Range(history) |-> heap[r]]
       ELSE /\ cells' = history[Len(history)]
            /\ historyPointer' = Len(history) - 1
            /\ heap' = [r \in Range(history) |-> heap[r]]

\* undo that goes back to the first snapshot
undoToStart ==
    /\ UNCHANGED <<board, palette, metadata, selectedColorId, activeTool, viewMode,
                   history>>
    /\ IF historyPointer > 0
       THEN /\ cells' = history[1]
            /\ historyPointer' = 0
            /\ heap' = [r \in Range(history) |-> heap[r]]
       ELSE UNCHANGED <<heap, cells, historyPointer>>

\* undo that moves the pointer but leaves the live grid
undoKeepsCells ==
    /\ UNCHANGED <<board, palette, metadata, selectedColorId, activeTool, viewMode,
                   history>>
    /\ IF historyPointer > 0
       THEN /\ historyPointer' = historyPointer - 1
            /\ heap' = [r \in Range(history) \cup {cells} |-> heap[r]]
            /\ UNCHANGED cells
       ELSE UNCHANGED <<heap, cells, historyPointer>>

undo ==
    /\ UNCHANGED <<board, palette, metadata, selectedColorId, activeTool, viewMode,
                   history>>
    /\ IF historyPointer > 0
       THEN /\ cells' = history[(historyPointer - 1) + 1]
            /\ historyPointer' = historyPointer - 1
            /\ heap' = [r \in Range(history) |-> heap[r]]
       ELSE UNCHANGED <<heap, cells, historyPointer>>

\* redo that goes forward to the last snapshot
redoToEnd ==
    /\ UNCHANGED <<board, palette, metadata, selectedColorId, activeTool, viewMode,
                   history>>
    /\ IF historyPointer < Len(history) - 1
       THEN /\ cells' = history[Len(history)]
            /\ historyPointer' = Len(history) - 1
            /\ heap' = [r \in Range(history) |-> heap[r]]
       ELSE UNCHANGED <<heap, cells, historyPointer>>

\* if (historyPointer < history.length - 1)
redoAvailable == historyPointer < Len(history) - 1

redo ==
    /\ UNCHANGED <<board, palette, metadata, selectedColorId, activeTool, viewMode,
                   history>>
    /\ IF redoAvailable
       THEN /\ cells' = history[(historyPointer + 1) + 1]
            /\ historyPointer' = historyPointer + 1
            /\ heap' = [r \in Range(history) |-> heap[r]]
       ELSE UNCHANGED <<heap, cells, historyPointer>>

\* loadPattern that appends the loaded grid to the history as an edit does
loadPatternPushes(patternCells, patternMetadata) ==
    /\ metadata' = patternMetadata
    /\ Publish(NewMap, recordToMap(patternCells))
    /\ UNCHANGED <<board, palette, selectedColorId, activeTool, viewMode>>

\* loadPattern that replaces the history but leaves the pointer
loadPatternKeepsPointer(patternCells, patternMetadata) ==
    /\ cells' = NewRef({})
    /\ metadata' = patternMetadata
    /\ history' = <<NewRef({})>>
    /\ historyPointer' = historyPointer
    /\ heap' = [r \in {NewRef({})} |-> recordToMap(patternCells)]
    /\ UNCHANGED <<board, palette, selectedColorId, activeTool, viewMode>>

loadPattern(patternCells, patternMetadata) ==
    /\ cells' = NewRef({})
    /\ metadata' = patternMetadata
    /\ history' = <<NewRef({})>>
    /\ historyPointer' = 0
    /\ heap' = [r \in {NewRef({})} |-> recordToMap(patternCells)]
    /\ UNCHANGED <<board, palette, selectedColorId, activeTool, viewMode>>

\* exportPattern that takes the cells of the first snapshot
exportPatternResultOfFirstSnapshot(id, now) ==
    [id |-> id,
     metadata |-> [metadata EXCEPT !.created = now],
     cells |-> mapToRecord(heap[history[1]])]

\* the Pattern exportPattern returns when uuidv4() gives id and Date.now()
\* gives now
exportPatternResult(id, now) ==
    [id |-> id,
     metadata |-> [metadata EXCEPT !.created = now],
     cells |-> mapToRecord(Grid)]

\* exportPattern that writes the refreshed metadata to the store
exportPatternStampsStore(id, now) ==
    /\ metadata' = [metadata EXCEPT !.created = now]
    /\ UNCHANGED <<board, palette, selectedColorId, activeTool, viewMode,
                   heap, cells, history, historyPointer>>

\* exportPattern reads the store with get() and calls no set()
exportPattern(id, now) == UNCHANGED storeVars

(***************************************************************************)
(* Observers.  `last` records the latest call; `track` follows one         *)
(* scenario of calls through a session (its kind is fixed by the initial   *)
(* state, "off" when no scenario is followed).                             *)
(***************************************************************************)
Edits == {"setCell", "fill", "clearBoard"}

storeChanged ==
    <<heap, cells, history, historyPointer>>' # <<heap, cells, history, historyPointer>>

TrackOff == [kind |-> "off"]

\* N history-creating edits from a one-entry history holding the empty grid,
\* then N times undo, then N times redo
UndoRedoIdle ==
    [kind |-> "undoRedo", stage |-> "off", n |-> 0, k |-> 0, final |-> EmptyMap]

UndoRedoStart ==
    [kind |-> "undoRedo", stage |-> "edit", n |-> 0, k |-> 0, final |-> EmptyMap]

TrackUndoRedo(op) ==
    IF Len(history') = 1 /\ heap'[cells'] = EmptyMap
    THEN UndoRedoStart
    ELSE IF track.stage = "edit" /\ op \in Edits
    THEN [track EXCEPT !.n = IF storeChanged THEN @ + 1 ELSE @]
    ELSE IF track.stage = "edit" /\ op \in {"setColor", "setTool"}
    THEN track
    ELSE IF track.stage = "edit" /\ op = "undo" /\ track.n >= 1
    THEN [track EXCEPT !.stage = "undo", !.k = 1, !.final = Grid]
    ELSE IF track.stage = "undo" /\ op = "undo" /\ track.k < track.n
    THEN [track EXCEPT !.k = @ + 1]
    ELSE IF track.stage = "undo" /\ op = "redo" /\ track.k = track.n
    THEN [track EXCEPT !.stage = "redo", !.k = 1]
    ELSE IF track.stage = "redo" /\ op = "redo" /\ track.k < track.n
    THEN [track EXCEPT !.k = @ + 1]
    ELSE UndoRedoIdle

\* setCell(x,y) with the pencil on an empty cell, setTool('eraser'),
\* setCell(x,y)
EraseIdle ==
    [kind |-> "erase", stage |-> "off", x |-> 0, y |-> 0, grid |-> EmptyMap,
     pointer |-> 0]

TrackErase(op, x, y, arg) ==
    IF op = "setCell" /\ activeTool = "pencil" /\ MapGet(Grid, makeKey(x, y)) = {}
    THEN [kind |-> "erase", stage |-> "painted", x |-> x, y |-> y, grid |-> Grid,
          pointer |-> historyPointer]
    ELSE IF track.stage = "painted" /\ op = "setTool" /\ arg = "eraser"
    THEN [track EXCEPT !.stage = "armed"]
    ELSE IF track.stage = "armed" /\ op = "setCell" /\ x = track.x /\ y = track.y
    THEN [track EXCEPT !.stage = "erased"]
    ELSE EraseIdle

\* loadPattern, then any number of undo and redo calls
LoadIdle ==
    [kind |-> "load", stage |-> "off", grid |-> EmptyMap, before |-> {},
     undone |-> FALSE, redone |-> FALSE]

TrackLoad(op) ==
    IF op = "loadPattern"
    THEN [kind |-> "load", stage |-> "loaded", grid |-> heap'[cells'],
          before |-> Range(Snapshots), undone |-> FALSE, redone |-> FALSE]
    ELSE IF track.stage = "loaded" /\ op = "undo"
    THEN [track EXCEPT !.undone = TRUE]
    ELSE IF track.stage = "loaded" /\ op = "redo"
    THEN [track EXCEPT !.redone = TRUE]
    ELSE LoadIdle

\* exportPattern, then at most one other call (between: it changed the live
\* grid), then loadPattern of the pattern exportPattern returned
NoPattern == [id |-> "", metadata |-> InitialMetadata, cells |-> EmptyMap]

ExportIdle ==
    [kind |-> "export", stage |-> "off", returned |-> NoPattern, grid |-> EmptyMap,
     between |-> FALSE]

TrackExport(op, x, y, arg) ==
    IF op = "exportPattern"
    THEN [kind |-> "export", stage |-> "exported",
          returned |-> exportPatternResult(arg, x), grid |-> Grid,
          between |-> FALSE]
    ELSE IF track.stage \in {"exported", "held"} /\ op = "loadPattern"
            /\ arg = track.returned.id
    THEN [track EXCEPT !.stage = "reloaded"]
    ELSE IF track.stage = "exported"
    THEN [track EXCEPT !.stage = "held", !.between = (heap'[cells'] # track.grid)]
    ELSE ExportIdle

\* the start of the store, then one edit that pushes a snapshot, then undo;
\* grid is the grid the store started with
RestoreOff == [kind |-> "restore", stage |-> "off", grid |-> EmptyMap]

TrackRestore(op) ==
    IF track.stage = "start" /\ op \in {"setCell", "fill", "clearBoard"}
                             /\ history' # history
    THEN [track EXCEPT !.stage = "edited"]
    ELSE IF track.stage = "start" /\ op # "loadPattern"
    THEN track
    ELSE IF track.stage = "edited" /\ op = "undo"
    THEN [track EXCEPT !.stage = "undone"]
    ELSE RestoreOff

\* the observers' part of a step that makes the call op(x, y, arg)
Observe(op, x, y, arg) ==
    /\ last' = IF track.kind = "off" THEN Call(op, x, y, arg) ELSE last
    /\ track' = CASE track.kind = "off" -> track
                  [] track.kind = "undoRedo" -> TrackUndoRedo(op)
                  [] track.kind = "erase" -> TrackErase(op, x, y, arg)
                  [] track.kind = "load" -> TrackLoad(op)
                  [] track.kind = "export" -> TrackExport(op, x, y, arg)
                  [] track.kind = "ui" -> track
                  [] track.kind = "restore" -> TrackRestore(op)
                  [] track.kind = "pdf" -> track

(***************************************************************************)
(* Editing sessions: the store driven by its callers.                      *)
(***************************************************************************)
CallSetCell ==
    \E c \in Coords : setCell(c[1], c[2]) /\ Observe("setCell", c[1], c[2], "")

CallFill ==
    \E c \in FillCoords : fill(c[1], c[2]) /\ Observe("fill", c[1], c[2], "")

CallClearBoard == clearBoard /\ Observe("clearBoard", 0, 0, "")

CallSetColor == \E id \in ColorIds : setColor(id) /\ Observe("setColor", 0, 0, id)

CallSetTool == \E tool \in ToolType : setTool(tool) /\ Observe("setTool", 0, 0, tool)

CallUndo == undo /\ Observe("undo", 0, 0, "")

CallRedo == redo /\ Observe("redo", 0, 0, "")

CallLoadPattern ==
    \E p \in Patterns :
        loadPattern(p.cells, p.metadata) /\ Observe("loadPattern", 0, 0, p.id)

Next ==
    \/ CallSetCell
    \/ CallFill
    \/ CallClearBoard
    \/ CallSetColor
    \/ CallSetTool
    \/ CallUndo
    \/ CallRedo
    \/ CallLoadPattern

Init == InitStore /\ last = InitLast /\ track = TrackOff

Spec == Init /\ [][Next]_vars

\* sessions followed for the undo/redo scenario
InitUndoRedo ==
    /\ InitStore
    /\ last = InitLast
    /\ track = IF Grid = EmptyMap THEN UndoRedoStart ELSE UndoRedoIdle

SpecUndoRedo == InitUndoRedo /\ [][Next]_vars

\* sessions followed for the paint-then-erase scenario
InitErase == InitStore /\ last = InitLast /\ track = EraseIdle

SpecErase == InitErase /\ [][Next]_vars

\* sessions followed for the load-then-undo/redo scenario
InitLoad == InitStore /\ last = InitLast /\ track = LoadIdle

SpecLoad == InitLoad /\ [][Next]_vars

\* sessions followed from the start of the store, with or without a grid
\* left in storage by an earlier session
InitRestore ==
    /\ InitStore
    /\ last = InitLast
    /\ track = [kind |-> "restore", stage |-> "start", grid |-> Grid]

SpecRestore == InitRestore /\ [][Next]_vars

(***************************************************************************)
(* Sessions that load patterns read from a file: the cell record of such a *)
(* pattern is whatever the JSON text held.                                 *)
(***************************************************************************)
\* patterns whose cell record has, next to one entry written by makeKey, an
\* entry whose key has a component that is not a number, a key without a
\* comma, and a key of a position past the right edge of the board; and a
\* pattern with a colour id that no palette entry has
FilePatterns ==
    { [id |-> "stray", metadata |-> LoadedMetadata,
       cells |-> (makeKey(0, 0) :> "blue") @@ (<<"a", ",", "0">> :> "red")],
      [id |-> "short", metadata |-> LoadedMetadata,
       cells |-> (makeKey(1, 0) :> "blue") @@ (<<"5">> :> "red")],
      [id |-> "outside", metadata |-> LoadedMetadata,
       cells |-> (makeKey(0, 0) :> "blue") @@ (makeKey(Cols, 0) :> "red")],
      [id |-> "tinted", metadata |-> LoadedMetadata,
       cells |-> (makeKey(0, 0) :> "teal")] }

CallLoadFile ==
    \E p \in FilePatterns :
        loadPattern(p.cells, p.metadata) /\ Observe("loadPattern", 0, 0, p.id)

NextFiles ==
    \/ CallLoadFile
    \/ CallSetCell
    \/ CallSetColor
    \/ CallUndo
    \/ CallRedo

SpecFiles == Init /\ [][NextFiles]_vars

(***************************************************************************)
(* Sessions that export the pattern and load what was exported.            *)
(***************************************************************************)
\* values of uuidv4() and of Date.now()
Uuids == {"uuid-a", "uuid-b"}
Clock == {2, 3}

CallExportPattern ==
    \E id \in Uuids, now \in Clock :
        exportPattern(id, now) /\ Observe("exportPattern", now, 0, id)

\* loadPattern called with the pattern the caller got from exportPattern
CallLoadReturned ==
    /\ track.kind = "export"
    /\ track.stage \in {"exported", "held"}
    /\ loadPattern(track.returned.cells, track.returned.metadata)
    /\ Observe("loadPattern", 0, 0, track.returned.id)

NextExport ==
    \/ CallExportPattern
    \/ CallLoadReturned
    \/ CallSetCell
    \/ CallSetColor
    \/ CallUndo

InitExport == InitStore /\ last = InitLast /\ track = ExportIdle

SpecExport == InitExport /\ [][NextExport]_vars

(***************************************************************************)
(* Sessions run twice: a session of engine calls, with setViewMode calls   *)
(* in between, is recorded; then the store is created again from the same  *)
(* persisted state and the same engine calls are made, again with          *)
(* setViewMode calls in between.                                           *)
(***************************************************************************)
\* everything the store holds but viewMode
Engine ==
    [board |-> board, palette |-> palette, metadata |-> metadata,
     selectedColorId |-> selectedColorId, activeTool |-> activeTool,
     heap |-> heap, cells |-> cells, history |-> history,
     historyPointer |-> historyPointer]

\* the engine calls of these sessions
EngineCalls ==
    {[op |-> "setCell", x |-> c[1], y |-> c[2], arg |-> ""] :
        c \in {<<0, 0>>, <<Cols, 0>>}}
    \cup {[op |-> "fill", x |-> 0, y |-> 0, arg |-> ""],
          [op |-> "clearBoard", x |-> 0, y |-> 0, arg |-> ""],
          [op |-> "setColor", x |-> 0, y |-> 0, arg |-> ""],
          [op |-> "setTool", x |-> 0, y |-> 0, arg |-> "eraser"],
          [op |-> "undo", x |-> 0, y |-> 0, arg |-> ""],
          [op |-> "redo", x |-> 0, y |-> 0, arg |-> ""]}

\* the engine calls of the sessions that are run again with another tool in
\* the place of the pencil
ToolCalls ==
    {[op |-> "setCell", x |-> c[1], y |-> c[2], arg |-> ""] :
        c \in {<<0, 0>>, <<Cols - 1, Rows - 1>>}}
    \cup {[op |-> "setColor", x |-> 0, y |-> 0, arg |-> "blue"],
          [op |-> "setTool", x |-> 0, y |-> 0, arg |-> "eraser"],
          [op |-> "setTool", x |-> 0, y |-> 0, arg |-> "pencil"],
          [op |-> "undo", x |-> 0, y |-> 0, arg |-> ""]}

SessionCalls == IF track.kind = "tools" THEN ToolCalls ELSE EngineCalls

\* the call made in the second run for a call of the first run: in the
\* sessions run again with another tool, setTool('pencil') becomes
\* setTool of that tool
Replayed(call) ==
    IF track.kind = "tools" /\ call.op = "setTool" /\ call.arg = "pencil"
    THEN [call EXCEPT !.arg = track.tool]
    ELSE call

\* the store action a call stands for
Do(call) ==
    \/ call.op = "setCell" /\ setCell(call.x, call.y)
    \/ call.op = "fill" /\ fill(call.x, call.y)
    \/ call.op = "clearBoard" /\ clearBoard
    \/ call.op = "setColor" /\ setColor(call.arg)
    \/ call.op = "setTool" /\ setTool(call.arg)
    \/ call.op = "undo" /\ undo
    \/ call.op = "redo" /\ redo

\* first run: an engine call is made and written down
RecordCall ==
    /\ track.phase = "record"
    /\ Len(track.trace) < MaxTrace
    /\ \E call \in SessionCalls :
          /\ Do(call)
          /\ last' = Call(call.op, call.x, call.y, call.arg)
          /\ track' = [track EXCEPT !.trace = Append(@, call)]

\* the store is created again from the persisted state the first run
\* started with; what the first run ended with is kept for comparison
Restart ==
    /\ track.phase = "record"
    /\ Len(track.trace) >= 1
    /\ board' = track.start.board
    /\ palette' = track.start.palette
    /\ metadata' = track.start.metadata
    /\ selectedColorId' = track.start.selectedColorId
    /\ activeTool' = track.start.activeTool
    /\ viewMode' = "2D"
    /\ heap' = track.start.heap
    /\ cells' = track.start.cells
    /\ history' = track.start.history
    /\ historyPointer' = track.start.historyPointer
    /\ last' = InitLast
    /\ track' = [track EXCEPT !.phase = "replay", !.outcome = Engine,
                              !.outcomeView = viewMode, !.pos = 0]

\* the store is created again as in Restart and setTool(tool) is called,
\* for a tool that is neither the pencil nor the eraser
RestartWithTool ==
    /\ track.phase = "record"
    /\ Len(track.trace) >= 1
    /\ \E tool \in ToolType \ {"pencil", "eraser"} :
          /\ activeTool' = tool
          /\ track' = [track EXCEPT !.phase = "replay", !.outcome = Engine,
                                    !.tool = tool, !.pos = 0]
    /\ board' = track.start.board
    /\ palette' = track.start.palette
    /\ metadata' = track.start.metadata
    /\ selectedColorId' = track.start.selectedColorId
    /\ viewMode' = "2D"
    /\ heap' = track.start.heap
    /\ cells' = track.start.cells
    /\ history' = track.start.history
    /\ historyPointer' = track.start.historyPointer
    /\ last' = InitLast

\* second run: the next engine call of the first run is made
ReplayCall ==
    /\ track.phase = "replay"
    /\ track.pos < Len(track.trace)
    /\ Do(Replayed(track.trace[track.pos + 1]))
    /\ last' = Call(track.trace[track.pos + 1].op, track.trace[track.pos + 1].x,
                    track.trace[track.pos + 1].y,
                    Replayed(track.trace[track.pos + 1]).arg)
    /\ track' = [track EXCEPT !.pos = @ + 1]

CallSetViewMode ==
    \E mode \in ViewModes :
        /\ setViewMode(mode)
        /\ last' = Call("setViewMode", 0, 0, mode)
        /\ UNCHANGED track

NextView ==
    \/ RecordCall
    \/ Restart
    \/ ReplayCall
    \/ CallSetViewMode

InitView ==
    /\ InitStore
    /\ last = InitLast
    /\ track = [kind |-> "view", phase |-> "record", start |-> Engine,
                trace |-> <<>>, outcome |-> Engine, outcomeView |-> viewMode,
                pos |-> 0]

SpecView == InitView /\ [][NextView]_vars

NextTools ==
    \/ RecordCall
    \/ RestartWithTool
    \/ ReplayCall

InitTools ==
    /\ InitStore
    /\ last = InitLast
    /\ track = [kind |-> "tools", phase |-> "record", start |-> Engine,
                trace |-> <<>>, outcome |-> Engine, tool |-> "pencil", pos |-> 0]

SpecTools == InitTools /\ [][NextTools]_vars

(***************************************************************************)
(* The codec on its own: a position is encoded with makeKey and the key is *)
(* decoded with parseKey.                                                  *)
(***************************************************************************)
\* the integers of [0,1000) and those among them where the number of digits
\* changes or digits repeat
CodecFull == 0 .. 999
CodecSample == {0, 1, 9, 10, 11, 99, 100, 101, 110, 111, 999}

\* the positions encoded: one coordinate is any integer of [0,1000), the
\* other one is of the sample
CodecPositions == (CodecFull \X CodecSample) \cup (CodecSample \X CodecFull)

InitCodec ==
    /\ InitStore
    /\ Grid = EmptyMap
    /\ last = InitLast
    /\ \E p \in CodecPositions :
          track = [kind |-> "codec", stage |-> "position", x |-> p[1], y |-> p[2],
                   key |-> <<>>, parsed |-> [x |-> Undefined, y |-> Undefined]]

EncodeKey ==
    /\ track.stage = "position"
    /\ track' = [track EXCEPT !.stage = "encoded", !.key = makeKey(track.x, track.y)]
    /\ UNCHANGED <<storeVars, last>>

DecodeKey ==
    /\ track.stage = "encoded"
    /\ track' = [track EXCEPT !.stage = "decoded", !.parsed = parseKey(track.key)]
    /\ UNCHANGED <<storeVars, last>>

NextCodec == EncodeKey \/ DecodeKey

SpecCodec == InitCodec /\ [][NextCodec]_vars

(***************************************************************************)
(* Flood fills on the 3x3 board of the scenario of spec section 8: a       *)
(* session that loaded a pattern and chose a colour makes one fill.        *)
(***************************************************************************)
ScenarioBoard == [cols |-> 3, rows |-> 3]

Positions(b) == (0 .. b.cols - 1) \X (0 .. b.rows - 1)

KeysOf(S) == {makeKey(p[1], p[2]) : p \in S}

\* the loaded grids: any set of cells of the board holds "red"
ScenarioGrids == {[k \in KeysOf(S) |-> "red"] : S \in SUBSET Positions(ScenarioBoard)}

ScenarioColors == {"red", "blue", ""}

\* start positions: the board and the ring of positions around it
ScenarioStarts == (-1 .. ScenarioBoard.cols) \X (-1 .. ScenarioBoard.rows)

InitFill ==
    \E g \in ScenarioGrids, c \in ScenarioColors :
        /\ board = ScenarioBoard
        /\ palette = DEFAULT_PALETTE
        /\ metadata = LoadedMetadata
        /\ selectedColorId = c
        /\ activeTool = "fill"
        /\ viewMode = "2D"
        /\ cells = 1
        /\ history = <<1>>
        /\ heap = [r \in {1} |-> recordToMap(g)]
        /\ historyPointer = 0
        /\ last = InitLast
        /\ track = TrackOff

FillScenario ==
    /\ Len(history) = 1
    /\ \E c \in ScenarioStarts : fill(c[1], c[2]) /\ Observe("fill", c[1], c[2], "")

NextFill == FillScenario

SpecFill == InitFill /\ [][NextFill]_vars

(***************************************************************************)
(* Flood fills pass by pass: fill reads the store, copies the grid into a  *)
(* Map of its own, runs the passes of its while loop on that Map and then  *)
(* publishes it with one set().  While a fill runs no other call is made.  *)
(***************************************************************************)
\* start positions: the centre, a corner and a position left of the board
StepStarts == {<<1, 1>>, <<0, 0>>, <<-1, 0>>}

FillIdle ==
    [kind |-> "fillSteps", pc |-> "idle", ref |-> 0, queue |-> <<>>, visited |-> {},
     targetColor |-> {}, pre |-> EmptyMap, post |-> EmptyMap, passes |-> 0,
     assigned |-> EmptyMap, start |-> <<0, 0>>]

InitFillSteps ==
    \E g \in ScenarioGrids, c \in ScenarioColors :
        /\ board = ScenarioBoard
        /\ palette = DEFAULT_PALETTE
        /\ metadata = LoadedMetadata
        /\ selectedColorId = c
        /\ activeTool = "fill"
        /\ viewMode = "2D"
        /\ cells = 1
        /\ history = <<1>>
        /\ heap = [r \in {1} |-> recordToMap(g)]
        /\ historyPointer = 0
        /\ last = InitLast
        /\ track = FillIdle

\* lines 88-96 of fill: the early return, or the copy of the grid and the
\* work list with the start position
FillBegin ==
    /\ track.pc = "idle"
    /\ Len(history) = 1
    /\ UNCHANGED <<board, palette, metadata, selectedColorId, activeTool, viewMode,
                   cells, history, historyPointer>>
    /\ \E c \in StepStarts :
          LET targetColor == MapGet(Grid, makeKey(c[1], c[2]))
          IN  /\ ~fillReturnsEarly(targetColor)
              /\ heap' = [r \in (DOMAIN heap) \cup {NewMap} |->
                            IF r = NewMap THEN Grid ELSE heap[r]]
              /\ track' = [FillIdle EXCEPT
                              !.pc = "loop", !.ref = NewMap,
                              !.queue = <<c>>, !.targetColor = targetColor,
                              !.pre = Grid, !.start = c,
                              !.post = fillLoop(Grid, <<c>>, {}, targetColor)]
              /\ last' = Call("fill", c[1], c[2], "")

\* the bookkeeping of a pass: the passes made and how often each key was set
AfterPass(s) ==
    [track EXCEPT !.queue = s.queue, !.visited = s.visited,
                  !.passes = @ + 1,
                  !.assigned = [k \in (DOMAIN @) \cup s.assigned |->
                                  IF k \in s.assigned
                                  THEN (IF k \in DOMAIN @ THEN @[k] ELSE 0) + 1
                                  ELSE @[k]]]

\* one pass of a loop that has neither the visited check nor the colour check
FillIterateRevisits ==
    /\ track.pc = "loop"
    /\ track.queue # <<>>
    /\ LET top == track.queue[Len(track.queue)]
           s == fillTakeRevisits(heap[track.ref], track.queue, track.visited,
                                 track.targetColor, Len(track.queue),
                                 fillNeighbours(top[1], top[2]))
       IN  /\ heap' = [heap EXCEPT ![track.ref] = s.newCells]
           /\ track' = AfterPass(s)
    /\ UNCHANGED <<board, palette, metadata, selectedColorId, activeTool, viewMode,
                   cells, history, historyPointer, last>>

\* lines 98-116 of fill: one pass of the while loop
FillIterate ==
    /\ track.pc = "loop"
    /\ track.queue # <<>>
    /\ LET s == fillStep(heap[track.ref], track.queue, track.visited,
                         track.targetColor)
       IN  /\ heap' = [heap EXCEPT ![track.ref] = s.newCells]
           /\ track' = AfterPass(s)
    /\ UNCHANGED <<board, palette, metadata, selectedColorId, activeTool, viewMode,
                   cells, history, historyPointer, last>>

\* lines 118-120 of fill: the loop has ended, the copy is published
FillPublish ==
    /\ track.pc = "loop"
    /\ track.queue = <<>>
    /\ Publish(track.ref, heap[track.ref])
    /\ track' = [track EXCEPT !.pc = "idle"]
    /\ UNCHANGED <<board, palette, metadata, selectedColorId, activeTool, viewMode,
                   last>>

NextFillSteps == FillBegin \/ FillIterate \/ FillPublish

SpecFillSteps == InitFillSteps /\ [][NextFillSteps]_vars

\* fill is synchronous code: once called, its loop makes pass after pass
\* and the statements after the loop run when the loop has ended
SpecFillStepsFair ==
    /\ InitFillSteps
    /\ [][NextFillSteps]_vars
    /\ WF_vars(FillIterate)
    /\ WF_vars(FillPublish)

(***************************************************************************)
(* fill with the order of its work left open: a pass may take any pending  *)
(* position off the work list and push the four neighbours in any order.   *)
(* As any entry may be taken next, the order of the entries of the list    *)
(* carries no information: track.queue is the bag of the pending           *)
(* positions, and the four pushes of a pass add the same four entries to   *)
(* it in whichever order they are made.  track.post is the grid the loop of the code (last position  *)
(* first, the neighbours in the order of lines 111-114) produces from the  *)
(* same grid, track.codeOrder the keys that loop colours, in its order,    *)
(* and track.offCode tells that a pass coloured a cell out of that order.  *)
(***************************************************************************)
OrderBoard == [cols |-> 2, rows |-> 2]

OrderGrids == {[k \in KeysOf(S) |-> "red"] : S \in SUBSET Positions(OrderBoard)}

OrderStarts == {<<0, 0>>, <<1, 1>>, <<-1, 0>>}

\* the keys the loop of the code colours, in the order it colours them
RECURSIVE fillLoopOrder(_, _, _, _)
fillLoopOrder(newCells, queue, visited, targetColor) ==
    IF queue = <<>> THEN <<>>
    ELSE LET s == fillStep(newCells, queue, visited, targetColor)
             k == IF s.assigned = {} THEN <<>>
                  ELSE <<CHOOSE kk \in s.assigned : TRUE>>
         IN  k \o fillLoopOrder(s.newCells, s.queue, s.visited, targetColor)

OrderIdle ==
    [kind |-> "fillOrder", pc |-> "idle", ref |-> 0, queue |-> EmptyBag,
     visited |-> {}, targetColor |-> {}, pre |-> EmptyMap, post |-> EmptyMap,
     start |-> <<0, 0>>, offCode |-> FALSE, codeOrder |-> <<>>]

InitFillOrder ==
    \E g \in OrderGrids, c \in ScenarioColors :
        /\ board = OrderBoard
        /\ palette = DEFAULT_PALETTE
        /\ metadata = LoadedMetadata
        /\ selectedColorId = c
        /\ activeTool = "fill"
        /\ viewMode = "2D"
        /\ cells = 1
        /\ history = <<1>>
        /\ heap = [r \in {1} |-> recordToMap(g)]
        /\ historyPointer = 0
        /\ last = InitLast
        /\ track = OrderIdle

\* lines 88-96 of fill
OrderBegin ==
    /\ track.pc = "idle"
    /\ Len(history) = 1
    /\ UNCHANGED <<board, palette, metadata, selectedColorId, activeTool, viewMode,
                   cells, history, historyPointer, last>>
    /\ \E c \in OrderStarts :
          LET targetColor == MapGet(Grid, makeKey(c[1], c[2]))
          IN  /\ ~fillReturnsEarly(targetColor)
              /\ heap' = [r \in (DOMAIN heap) \cup {NewMap} |->
                            IF r = NewMap THEN Grid ELSE heap[r]]
              /\ track' = [OrderIdle EXCEPT
                              !.pc = "loop", !.ref = NewMap,
                              !.queue = SetToBag({c}), !.targetColor = targetColor,
                              !.pre = Grid, !.start = c,
                              !.post = fillLoop(Grid, <<c>>, {}, targetColor),
                              !.codeOrder = fillLoopOrder(Grid, <<c>>, {}, targetColor)]

\* lines 98-116 of fill, one pass, with any pending position taken
OrderIterate ==
    /\ track.pc = "loop"
    /\ BagToSet(track.queue) # {}
    /\ \E top \in BagToSet(track.queue) :
          LET s == fillTake(heap[track.ref], <<top>>, track.visited,
                            track.targetColor, 1, fillNeighbours(top[1], top[2]))
          IN  /\ heap' = [heap EXCEPT ![track.ref] = s.newCells]
              /\ track' = [track EXCEPT
                              !.queue = (@ (-) SetToBag({top})) (+) SetToBag(Range(s.queue)),
                              !.visited = s.visited,
                              !.offCode =
                                  \/ @
                                  \/ /\ s.assigned # {}
                                     /\ s.assigned #
                                          {track.codeOrder[Cardinality(s.visited)]}]
    /\ UNCHANGED <<board, palette, metadata, selectedColorId, activeTool, viewMode,
                   cells, history, historyPointer, last>>

\* lines 118-120 of fill
OrderPublish ==
    /\ track.pc = "loop"
    /\ BagToSet(track.queue) = {}
    /\ Publish(track.ref, heap[track.ref])
    /\ track' = [track EXCEPT !.pc = "idle"]
    /\ UNCHANGED <<board, palette, metadata, selectedColorId, activeTool, viewMode,
                   last>>

NextFillOrder == OrderBegin \/ OrderIterate \/ OrderPublish

SpecFillOrder == InitFillOrder /\ [][NextFillOrder]_vars

(***************************************************************************)
(* Presentation layer (src/components: Editor2D, Scene3D, App).  In these  *)
(* sessions `track` holds the state of the mounted Editor2D component:     *)
(* isDragging, and scale in tenths (the zoom buttons change it by 0.1).    *)
(* lastPos is written and never read, and offset keeps its initial value   *)
(* (0,0).  The container is two cells wider and higher than the grid at    *)
(* scale 1 and its top left corner is the client origin.  Pointer          *)
(* positions are whole pixels and the quotients are exact.                 *)
(***************************************************************************)
\* const cellSize = 20
CellSize == 20

\* cells under the pointer: two corners of the board, a cell left of it and
\* a cell right of it
PointerCells == {<<0, 0>>, <<Cols - 1, Rows - 1>>, <<-1, 0>>, <<Cols, 0>>}

\* client coordinates of pointer events: the first and the last pixel of
\* each of these cells at the current zoom.  A cell is 2 * track.scale pixels
\* wide and the middle of cell c is (2 * c + 1 - cols) * track.scale pixels
\* right of the middle of the container.
PointerPixels ==
    {<<(board.cols + 2) * (CellSize \div 2) + (2 * c[1] + 1 - board.cols) * track.scale + d,
       (board.rows + 2) * (CellSize \div 2) + (2 * c[2] + 1 - board.rows) * track.scale + d>> :
        c \in PointerCells, d \in {0 - track.scale, track.scale - 1}}

\* e.button: 0 is the main button, 1 the middle one
Buttons == {0, 1}

\* Math.floor of the quotient of two integers, the divisor positive
Floor(a, b) == a \div b

\* Editor2D.handleInteract with rect.left = rect.top = 0, offset = (0,0) and
\* rect.width, rect.height two cells more than the grid
\* gridX, gridY of handleInteract.  With s = track.scale / 10,
\*   (relativeX - startX) / cellSize
\*     = (clientX / s - (rect.width / s - gridWidth) / 2) / cellSize
\*     = ((2 * clientX - rect.width) * 10 + gridWidth * track.scale)
\*         / (2 * cellSize * track.scale)
Editor2D_grid(clientX, clientY) ==
    LET gridWidth  == board.cols * CellSize
        gridHeight == board.rows * CellSize
        rectWidth  == gridWidth + 2 * CellSize
        rectHeight == gridHeight + 2 * CellSize
    IN  <<Floor((2 * clientX - rectWidth) * 10 + gridWidth * track.scale,
                2 * CellSize * track.scale),
          Floor((2 * clientY - rectHeight) * 10 + gridHeight * track.scale,
                2 * CellSize * track.scale)>>

\* handleInteract that calls setCell whatever the tool
handleInteractPaintsOnly(clientX, clientY) ==
    LET gridX == Editor2D_grid(clientX, clientY)[1]
        gridY == Editor2D_grid(clientX, clientY)[2]
    IN  IF gridX >= 0 /\ gridX < board.cols /\ gridY >= 0 /\ gridY < board.rows
        THEN setCell(gridX, gridY)
        ELSE UNCHANGED storeVars

\* handleInteract without its test of gridX and gridY
handleInteractUnchecked(clientX, clientY) ==
    LET gridX == Editor2D_grid(clientX, clientY)[1]
        gridY == Editor2D_grid(clientX, clientY)[2]
    IN  IF activeTool = "fill"
        THEN fill(gridX, gridY)
        ELSE setCell(gridX, gridY)

handleInteract(clientX, clientY) ==
    LET gridX == Editor2D_grid(clientX, clientY)[1]
        gridY == Editor2D_grid(clientX, clientY)[2]
    IN  IF gridX >= 0 /\ gridX < board.cols /\ gridY >= 0 /\ gridY < board.rows
        THEN IF activeTool = "fill"
             THEN fill(gridX, gridY)
             ELSE setCell(gridX, gridY)
        ELSE UNCHANGED storeVars

Editor2D_handlePointerDown(button, clientX, clientY) ==
    /\ viewMode = "2D"
    /\ IF button = 1 \/ activeTool = "line"
       THEN UNCHANGED storeVars
       ELSE handleInteract(clientX, clientY)
    /\ track' = [track EXCEPT !.isDragging = TRUE]

Editor2D_handlePointerMove(clientX, clientY) ==
    /\ viewMode = "2D"
    /\ IF track.isDragging /\ activeTool \in {"pencil", "eraser"}
       THEN handleInteract(clientX, clientY)
       ELSE UNCHANGED storeVars
    /\ UNCHANGED track

Editor2D_handlePointerUp ==
    /\ viewMode = "2D"
    /\ track' = [track EXCEPT !.isDragging = FALSE]
    /\ UNCHANGED storeVars

\* hit points of the 3D scene, in half pitches from the first peg: Math.round
\* of h half pitches is Floor(h + 1, 2) pitches
HitHalfPitches ==
    {<<-1, 0>>, <<1, 0>>, <<2 * (Cols - 1), 2 * (Rows - 1)>>, <<-2, 0>>,
     <<2 * (Cols - 1) + 1, 0>>}

\* a handler that calls fill when the fill tool is active
Scene3D_handlePointerDownByTool(interactive, hx, hz) ==
    /\ LET col == Floor(hx + 1, 2)
           row == Floor(hz + 1, 2)
       IN  IF interactive /\ col >= 0 /\ col < board.cols /\ row >= 0 /\ row < board.rows
           THEN IF activeTool = "fill" THEN fill(col, row) ELSE setCell(col, row)
           ELSE UNCHANGED storeVars
    /\ UNCHANGED track

\* `interactive` is the prop of the mounted Scene3D
Scene3D_handlePointerDown(interactive, hx, hz) ==
    /\ IF ~interactive
       THEN UNCHANGED storeVars
       ELSE LET col == Floor(hx + 1, 2)
                row == Floor(hz + 1, 2)
            IN  IF col >= 0 /\ col < board.cols /\ row >= 0 /\ row < board.rows
                THEN setCell(col, row)
                ELSE UNCHANGED storeVars
    /\ UNCHANGED track

\* the zoom buttons of Editor2D: -, 1:1 and +
Editor2D_zoom ==
    /\ viewMode = "2D"
    /\ \E scale \in {IF track.scale - 1 < 5 THEN 5 ELSE track.scale - 1,
                       10,
                       IF track.scale + 1 > 30 THEN 30 ELSE track.scale + 1} :
          /\ scale >= 10 - MaxZoom
          /\ scale <= 10 + MaxZoom
          /\ track' = [track EXCEPT !.scale = scale]
    /\ UNCHANGED storeVars

\* the view buttons of App: a view that is left is unmounted and the
\* Editor2D that is mounted starts with isDragging = false and scale = 1
AppSetViewMode ==
    \E mode \in ViewModes :
        /\ setViewMode(mode)
        /\ track' = IF mode = viewMode THEN track
                    ELSE [track EXCEPT !.isDragging = FALSE, !.scale = 10]

\* the events of a session of the editor; `last` is left as it is
PointerDown ==
    /\ \E b \in Buttons, p \in PointerPixels : Editor2D_handlePointerDown(b, p[1], p[2])
    /\ UNCHANGED last

PointerMove ==
    /\ \E p \in PointerPixels : Editor2D_handlePointerMove(p[1], p[2])
    /\ UNCHANGED last

PointerUp == Editor2D_handlePointerUp /\ UNCHANGED last

\* App mounts <Scene3D interactive /> in the 3D view
ScenePointerDown ==
    /\ viewMode = "3D"
    /\ \E h \in HitHalfPitches : Scene3D_handlePointerDown(TRUE, h[1], h[2])
    /\ UNCHANGED last

ZoomClick == Editor2D_zoom /\ UNCHANGED last

ViewClick == AppSetViewMode /\ UNCHANGED last

NextEditor ==
    \/ PointerDown
    \/ PointerMove
    \/ PointerUp
    \/ ScenePointerDown
    \/ ZoomClick
    \/ ViewClick
    \/ CallSetTool
    \/ CallSetColor
    \/ CallClearBoard
    \/ CallUndo
    \/ CallRedo

InitEditor ==
    /\ InitStore
    /\ Grid = EmptyMap
    /\ last = InitLast
    /\ track = [kind |-> "ui", isDragging |-> FALSE, scale |-> 10]

SpecEditor == InitEditor /\ [][NextEditor]_vars

(***************************************************************************)
(* Strokes in the 2D editor.  In these sessions `last` describes the       *)
(* stroke that the latest pointer-down began: the button, historyPointer   *)
(* at the pointer-down, and `over`, the cells of the board that an event   *)
(* of the stroke handed to handleInteract and that did not hold the        *)
(* selected colour then.  The tool and the colour are changed between      *)
(* strokes only, with the buttons of App.                                  *)
(***************************************************************************)
NoStroke == [op |-> "init", button |-> 0, prePointer |-> 0, over |-> {}]

\* `over` after an event at client position p that reaches handleInteract
StrokeOver(over, p) ==
    LET c == Editor2D_grid(p[1], p[2])
    IN  IF /\ c[1] >= 0 /\ c[1] < board.cols /\ c[2] >= 0 /\ c[2] < board.rows
           /\ MapGet(Grid, makeKey(c[1], c[2])) # {selectedColorId}
        THEN over \cup {c}
        ELSE over

StrokeDown ==
    \E b \in Buttons, p \in PointerPixels :
        /\ Editor2D_handlePointerDown(b, p[1], p[2])
        /\ last' = [op |-> "stroke", button |-> b, prePointer |-> historyPointer,
                    over |-> IF b = 1 \/ activeTool = "line" THEN {}
                             ELSE StrokeOver({}, p)]

StrokeMove ==
    \E p \in PointerPixels :
        /\ Editor2D_handlePointerMove(p[1], p[2])
        /\ last' = IF track.isDragging /\ activeTool \in {"pencil", "eraser"}
                   THEN [last EXCEPT !.over = StrokeOver(@, p)]
                   ELSE last

StrokeUp == Editor2D_handlePointerUp /\ UNCHANGED last

\* the tool buttons of App: pencil, fill and eraser
ToolButton ==
    \E tool \in {"pencil", "fill", "eraser"} :
        setTool(tool) /\ Observe("setTool", 0, 0, tool)

ToolClick == ~track.isDragging /\ ToolButton

\* the palette buttons of App: setColor(color.id) for an entry of the palette
PaletteClick ==
    /\ ~track.isDragging
    /\ \E id \in {palette[1], palette[5]} :
          setColor(id) /\ Observe("setColor", 0, 0, id)

UndoClick == ~track.isDragging /\ CallUndo

NextStroke ==
    \/ StrokeDown
    \/ StrokeMove
    \/ StrokeUp
    \/ ToolClick
    \/ PaletteClick
    \/ UndoClick

InitStroke ==
    /\ InitStore
    /\ Grid = EmptyMap
    /\ last = NoStroke
    /\ track = [kind |-> "ui", isDragging |-> FALSE, scale |-> 10]

SpecStroke == InitStroke /\ [][NextStroke]_vars

(***************************************************************************)
(* Sessions of a mounted Scene3D, interactive or not (track.interactive).  *)
(* `last` describes the latest click: the hit point, the tool and          *)
(* historyPointer at the click.                                            *)
(***************************************************************************)
NoClick == [op |-> "init", hit |-> <<0, 0>>, tool |-> "pencil", prePointer |-> 0]

SceneClick ==
    \E h \in HitHalfPitches :
        /\ Scene3D_handlePointerDown(track.interactive, h[1], h[2])
        /\ last' = [op |-> "click", hit |-> h, tool |-> activeTool,
                    prePointer |-> historyPointer]

NextScene ==
    \/ SceneClick
    \/ CallSetTool
    \/ CallSetColor
    \/ CallClearBoard
    \/ CallUndo

InitScene ==
    \E interactive \in BOOLEAN :
        /\ InitStore
        /\ Grid = EmptyMap
        /\ last = NoClick
        /\ track = [kind |-> "ui", isDragging |-> FALSE, scale |-> 10,
                    interactive |-> interactive]

SpecScene == InitScene /\ [][NextScene]_vars

\* sessions of the 2D editor with one colour: pointer events, the tool
\* buttons (also while the pointer is down), clearBoard and undo
NextDispatch ==
    \/ PointerDown
    \/ PointerMove
    \/ PointerUp
    \/ ToolButton
    \/ CallClearBoard
    \/ CallUndo

SpecDispatch == InitEditor /\ [][NextDispatch]_vars

(***************************************************************************)
(* The printable sheet.  generatePDF draws on a jsPDF document; the sheet   *)
(* is modelled by what is drawn on it: the marks of the grid, each at the  *)
(* board position it is drawn for, and the lines of the colour legend.     *)
(***************************************************************************)
\* the sheet before any download
NoSheet == [type |-> "none", title |-> "", marks |-> {}, legend |-> {}]

\* the mark drawn for the cell (x, y): a filled circle for a cell whose
\* colour id is truthy and found in the palette, nothing for a truthy id
\* the palette lacks, a small dot (teacher) or a faint outline (kid) for a
\* cell with no entry or an empty id
generatePDF_cell(pattern, palette_, type, x, y) ==
    LET key == makeKey(x, y)
        colorId == IF key \in DOMAIN pattern.cells THEN pattern.cells[key] ELSE ""
    IN  IF colorId # ""
        THEN IF colorId \in Range(palette_)
             THEN {[shape |-> "peg", x |-> x, y |-> y, color |-> colorId]}
             ELSE {}
        ELSE IF type = "teacher"
             THEN {[shape |-> "dot", x |-> x, y |-> y, color |-> ""]}
             ELSE {[shape |-> "outline", x |-> x, y |-> y, color |-> ""]}

\* counts[c]: the number of entries of pattern.cells whose value is c
generatePDF_counts(pattern) ==
    LET values == {pattern.cells[k] : k \in DOMAIN pattern.cells}
    IN  [c \in values |->
            Cardinality({k \in DOMAIN pattern.cells : pattern.cells[k] = c})]

\* the legend: one line "<name>: <n> pcs" for each palette colour that has
\* a count
generatePDF_legend(pattern, palette_) ==
    LET counts == generatePDF_counts(pattern)
    IN  {[id |-> palette_[i], pcs |-> counts[palette_[i]]] :
            i \in {j \in DOMAIN palette_ : palette_[j] \in DOMAIN counts}}

\* the document generatePDF saves
generatePDF(pattern, board_, palette_, type) ==
    [type |-> type,
     title |-> pattern.metadata.title,
     marks |-> UNION {generatePDF_cell(pattern, palette_, type, x, y) :
                        x \in 0 .. board_.cols - 1, y \in 0 .. board_.rows - 1},
     legend |-> generatePDF_legend(pattern, palette_)]

\* App's handleDownload, behind the buttons of the open Export menu
handleDownload(type) ==
    /\ track.isMenuOpen
    /\ \E id \in Uuids, now \in Clock :
        /\ exportPattern(id, now)
        /\ track' = [track EXCEPT
                        !.sheet = generatePDF(exportPatternResult(id, now),
                                              board, palette, type),
                        !.isMenuOpen = FALSE]
    /\ UNCHANGED last

DownloadClick == \E type \in {"kid", "teacher"} : handleDownload(type)

\* the Export button opens and closes the menu
MenuClick ==
    /\ track' = [track EXCEPT !.isMenuOpen = ~track.isMenuOpen]
    /\ UNCHANGED <<storeVars, last>>

\* sessions that edit the store, load patterns from files and download
\* sheets
NextPdf ==
    \/ CallSetCell
    \/ CallSetColor
    \/ CallSetTool
    \/ CallUndo
    \/ CallLoadFile
    \/ MenuClick
    \/ DownloadClick

InitPdf ==
    /\ InitStore
    /\ Grid = EmptyMap
    /\ last = InitLast
    /\ track = [kind |-> "pdf", isMenuOpen |-> FALSE, sheet |-> NoSheet]

SpecPdf == InitPdf /\ [][NextPdf]_vars

(***************************************************************************)
(* Properties.                                                             *)
(***************************************************************************)
\* C1: in every reachable state, the start-up state with persisted cells
\* merged in included, the snapshot history[historyPointer] equals the live
\* cells grid.
C1_SnapshotAtPointerIsLive ==
    /\ historyPointer + 1 \in 1 .. Len(history)
    /\ Snapshots[historyPointer + 1] = Grid

\* C2: in every reachable state history is non-empty and
\* 0 <= historyPointer <= history.length - 1.
C2_PointerInRange ==
    /\ Len(history) >= 1
    /\ 0 <= historyPointer
    /\ historyPointer <= Len(history) - 1

\* C2 witness: a full history with the pointer undone to its lower bound
C2_Witness ==
    /\ Len(history) = MaxHistory
    /\ historyPointer = 0
    /\ last.op = "undo"
    /\ last.changed

\* C3: after N history-creating edits made from a one-entry history that
\* holds the empty grid, N times undo give the empty grid back, and N
\* times redo after that give the grid the edits ended with.
C3_UndoRedoSymmetry ==
    /\ (track.stage = "undo" /\ track.k = track.n) => Grid = EmptyMap
    /\ (track.stage = "redo" /\ track.k = track.n) => Grid = track.final

\* C3 witness: two edits, two undos and two redos have restored a final
\* grid that is not empty
C3_Witness ==
    /\ track.stage = "redo"
    /\ track.n = 2
    /\ track.k = 2
    /\ track.final # EmptyMap
    /\ Grid = track.final

\* C4: an edit that writes to the store while redo is available leaves the
\* pointer on the last entry of a history made of the entries up to the old
\* pointer and one new entry; the redoable entries are gone, and a redo
\* that follows at once changes nothing.
C4_EditDiscardsRedo ==
    [][ (last.op \in Edits /\ last.changed /\ last.prePointer < last.preLength - 1)
        => /\ historyPointer = Len(history) - 1
           /\ Len(history) = last.prePointer + 2
           /\ ~redoAvailable
           /\ last'.op = "redo" => UNCHANGED storeVars ]_vars

\* C4 witness: an edit made two undos deep has replaced both redoable
\* entries
C4_Witness ==
    /\ last.op \in Edits
    /\ last.changed
    /\ last.prePointer = 0
    /\ last.preLength = 3
    /\ Len(history) = 2
    /\ historyPointer = 1

\* C5: an edit that writes to the store makes history the entries up to the
\* old pointer followed by one new snapshot, the live grid, with the pointer
\* on it; the entries kept are the same objects with the same contents, the
\* new snapshot is none of them, and the grid published before is not
\* written to.
C5_EditAppendsOneSnapshot ==
    [][ (last'.op \in Edits /\ last'.changed)
        => /\ Len(history') = historyPointer + 2
           /\ historyPointer' = historyPointer + 1
           /\ historyPointer' = Len(history') - 1
           /\ history'[Len(history')] = cells'
           /\ \A i \in 1 .. historyPointer + 1 :
                 /\ history'[i] = history[i]
                 /\ history'[i] # cells'
                 /\ heap'[history[i]] = heap[history[i]]
           /\ cells \in DOMAIN heap' => heap'[cells] = heap[cells] ]_vars

\* C5 witness: an edit made after an undo has written a third grid behind
\* two kept snapshots
C5_Witness ==
    /\ last.op \in Edits
    /\ last.changed
    /\ last.prePointer = 1
    /\ last.preLength = 3
    /\ Len(history) = 3
    /\ Grid # Snapshots[2]

\* C6: a setCell(x,y) that directly follows a setCell(x,y), with the tool
\* and the colour the first one had, leaves cells, history and
\* historyPointer as they are.
C6_RepeatedSetCellIsNoOp ==
    [][ (last.op = "setCell" /\ last'.op = "setCell"
         /\ last'.x = last.x /\ last'.y = last.y)
        => UNCHANGED <<heap, cells, history, historyPointer>> ]_vars

\* C7: a setCell(x,y) that writes to the store leaves every key other than
\* that of (x,y) with the value it had; the key of (x,y) is absent
\* afterwards with the eraser and maps to selectedColorId with any other
\* tool.
C7_SetCellChangesOnlyItsKey ==
    [][ (last'.op = "setCell" /\ last'.changed)
        => LET key == makeKey(last'.x, last'.y)
           IN  /\ \A k \in ((DOMAIN Grid) \cup (DOMAIN Grid')) \ {key} :
                      MapGet(Grid', k) = MapGet(Grid, k)
               /\ MapGet(Grid', key) =
                      IF activeTool = "eraser" THEN {} ELSE {selectedColorId} ]_vars

\* C8: setCell(x,y) with the pencil on an empty (x,y), then
\* setTool('eraser'), then setCell(x,y): the grid has no entry at (x,y) and
\* equals the grid before the paint, and two history entries were appended.
C8_EraseAfterPaint ==
    track.stage = "erased"
    => /\ makeKey(track.x, track.y) \notin DOMAIN Grid
       /\ Grid = track.grid
       /\ historyPointer = track.pointer + 2
       /\ Len(history) = track.pointer + 3

InBounds(p, b) == p[1] >= 0 /\ p[1] < b.cols /\ p[2] >= 0 /\ p[2] < b.rows

Adjacent4(p, q) ==
    \/ (p[1] = q[1] /\ (p[2] = q[2] + 1 \/ q[2] = p[2] + 1))
    \/ (p[2] = q[2] /\ (p[1] = q[1] + 1 \/ q[1] = p[1] + 1))

DiagonalOnly(p, q) ==
    /\ (p[1] = q[1] + 1 \/ q[1] = p[1] + 1)
    /\ (p[2] = q[2] + 1 \/ q[2] = p[2] + 1)

ColorAt(g, p) == MapGet(g, makeKey(p[1], p[2]))

\* the least set of board positions that holds S and every position of
\* colour `color` in g that is 4-adjacent to one of its members
RECURSIVE RegionFrom(_, _, _, _)
RegionFrom(S, g, b, color) ==
    LET more == {q \in Positions(b) :
                    /\ ColorAt(g, q) = color
                    /\ \E p \in S : Adjacent4(p, q)}
    IN  IF more \subseteq S THEN S ELSE RegionFrom(S \cup more, g, b, color)

\* the maximal 4-connected region of g around start with start's colour
Region(g, b, start) == RegionFrom({start}, g, b, ColorAt(g, start))

\* g with the cells of R set to c and every other key as it was
Recoloured(g, R, c) ==
    LET keys == KeysOf(R)
    IN  [k \in (DOMAIN g) \cup keys |-> IF k \in keys THEN c ELSE g[k]]

\* C9: a fill started on a board cell whose colour is not the selected one
\* sets exactly the maximal 4-connected region of that colour around the
\* start to the selected colour and changes nothing else; on the empty 3x3
\* board fill(1,1) colours all 9 cells.
C9_FillRecoloursRegion ==
    [][ (/\ last'.op = "fill"
         /\ InBounds(<<last'.x, last'.y>>, board)
         /\ ColorAt(Grid, <<last'.x, last'.y>>) # {selectedColorId})
        => /\ Grid' = Recoloured(Grid, Region(Grid, board, <<last'.x, last'.y>>),
                                 selectedColorId)
           /\ (Grid = EmptyMap /\ last'.x = 1 /\ last'.y = 1)
              => (/\ DOMAIN Grid' = KeysOf(Positions(ScenarioBoard))
                  /\ \A k \in DOMAIN Grid' : Grid'[k] = selectedColorId) ]_vars

\* C9 witness: a fill has recoloured a cell p and left as it was a cell q of
\* the colour p had that is not 4-adjacent to any recoloured cell but
\* touches p diagonally
C9_Witness ==
    /\ last.op = "fill"
    /\ last.changed
    /\ Len(history) = 2
    /\ \E p, q \in Positions(board) :
          /\ ColorAt(Snapshots[1], p) # ColorAt(Grid, p)
          /\ DiagonalOnly(p, q)
          /\ ColorAt(Snapshots[1], q) = ColorAt(Snapshots[1], p)
          /\ ColorAt(Grid, q) = ColorAt(Snapshots[1], q)

\* C10: a fill started on a position that holds the selected colour leaves
\* cells, history and historyPointer as they are.
C10_FillOnSelectedColourIsNoOp ==
    [][ (/\ last'.op = "fill"
         /\ ColorAt(Grid, <<last'.x, last'.y>>) = {selectedColorId})
        => UNCHANGED <<heap, cells, history, historyPointer>> ]_vars

\* C10 witness: a fill on a cell of the selected colour, two edits into a
\* session, has written nothing
C10_Witness ==
    /\ last.op = "fill"
    /\ ~last.changed
    /\ ColorAt(Grid, <<last.x, last.y>>) = {selectedColorId}
    /\ Len(history) = 3

\* C11: undo() called with historyPointer = p > 0 sets historyPointer to
\* p - 1 and cells to the snapshot history[p - 1].
C11_UndoStepsBack ==
    [][ (last'.op = "undo" /\ historyPointer > 0)
        => /\ historyPointer' = historyPointer - 1
           /\ cells' = history[(historyPointer - 1) + 1]
           /\ Grid' = Snapshots[(historyPointer - 1) + 1] ]_vars

\* C11 witness: an undo called at the end of a full history has published
\* the middle snapshot, which differs from the first and from the last one
C11_Witness ==
    /\ last.op = "undo"
    /\ last.prePointer = 2
    /\ last.preLength = 3
    /\ historyPointer = 1
    /\ Grid = Snapshots[2]
    /\ Snapshots[2] # Snapshots[1]
    /\ Snapshots[2] # Snapshots[3]

\* C12: redo() called with historyPointer = p < history.length - 1 sets
\* historyPointer to p + 1 and cells to the snapshot history[p + 1].
C12_RedoStepsForward ==
    [][ (last'.op = "redo" /\ historyPointer < Len(history) - 1)
        => /\ historyPointer' = historyPointer + 1
           /\ cells' = history[(historyPointer + 1) + 1]
           /\ Grid' = Snapshots[(historyPointer + 1) + 1] ]_vars

\* C12 witness: a redo called at the start of a full history has published
\* the middle snapshot, which differs from the first and from the last one
C12_Witness ==
    /\ last.op = "redo"
    /\ last.prePointer = 0
    /\ last.preLength = 3
    /\ historyPointer = 1
    /\ Grid = Snapshots[2]
    /\ Snapshots[2] # Snapshots[1]
    /\ Snapshots[2] # Snapshots[3]

\* C13: undo() called with historyPointer = 0 and redo() called with
\* historyPointer = history.length - 1 are no-ops: the pointer does not wrap
\* and the whole store state is left as it is.
C13_UndoRedoAtTheEndsAreNoOps ==
    [][ (\/ (last'.op = "undo" /\ historyPointer = 0)
         \/ (last'.op = "redo" /\ historyPointer = Len(history) - 1))
        => UNCHANGED storeVars ]_vars

\* C13 witness: an undo called on the first entry of a full history, whose
\* last snapshot differs from the live grid, has written nothing
C13_Witness ==
    /\ last.op = "undo"
    /\ last.prePointer = 0
    /\ last.preLength = 3
    /\ ~last.changed
    /\ historyPointer = 0
    /\ Snapshots[3] # Grid

\* C14: undo() and redo() leave the history sequence (its length, its
\* objects and the contents of every snapshot), selectedColorId, activeTool,
\* viewMode, metadata, board and palette as they are; they change at most
\* cells and historyPointer.
C14_UndoRedoFrame ==
    [][ (last'.op \in {"undo", "redo"})
        => /\ history' = history
           /\ Snapshots' = Snapshots
           /\ UNCHANGED <<selectedColorId, activeTool, viewMode, metadata,
                          board, palette>> ]_vars

\* C14 witness: an undo has moved the pointer inside a full history of three
\* different snapshots, in a store whose tool, colour and metadata are not
\* the initial ones
C14_Witness ==
    /\ last.op = "undo"
    /\ last.changed
    /\ last.prePointer = 2
    /\ Len(history) = 3
    /\ Snapshots[1] # Snapshots[2]
    /\ Snapshots[2] # Snapshots[3]
    /\ activeTool = "eraser"
    /\ selectedColorId = ""
    /\ metadata = LoadedMetadata

\* the key decodes to a position of the board b
DecodesToPosition(key, b) ==
    LET p == parseKey(key)
    IN  /\ p.x.kind = "number"
        /\ p.y.kind = "number"
        /\ InBounds(<<p.x.value, p.y.value>>, b)

\* the grid a cell record decodes to: its entries at positions of the board
DecodedGrid(record, b) ==
    [k \in {kk \in DOMAIN record : DecodesToPosition(kk, b)} |-> record[k]]

\* C15: from any state, whatever the history length and the pointer,
\* loadPattern(p) leaves a history of one entry, the pointer at 0 and, as
\* cells and as that entry, the grid decoded from p.cells.
C15_LoadResetsHistory ==
    [][ (last'.op = "loadPattern")
        => /\ Len(history') = 1
           /\ historyPointer' = 0
           /\ history'[1] = cells'
           /\ \A p \in Patterns :
                 last'.arg = p.id => Grid' = DecodedGrid(p.cells, board) ]_vars

\* C15 witness: a pattern with cells has been loaded into a store whose
\* history had three entries and whose pointer was in the middle
C15_Witness ==
    /\ last.op = "loadPattern"
    /\ last.arg = "row"
    /\ last.preLength = 3
    /\ last.prePointer = 1
    /\ Len(history) = 1
    /\ historyPointer = 0
    /\ DOMAIN Grid = {makeKey(0, 0), makeKey(1, 0)}

\* C16: loadPattern skips the malformed entries of a pattern: the grid it
\* publishes has no entry under a key of p.cells that does not decode to a
\* position of the board, and has every entry of p.cells whose key does.
C16_LoadSkipsMalformedEntries ==
    [][ (last'.op = "loadPattern")
        => \A p \in FilePatterns :
              last'.arg = p.id
              => \A k \in DOMAIN p.cells :
                    IF DecodesToPosition(k, board)
                    THEN MapGet(Grid', k) = {p.cells[k]}
                    ELSE k \notin DOMAIN Grid' ]_vars

\* C17: after loadPattern(p), whatever undo and redo calls follow, cells
\* equals the loaded grid, and so equals no grid that was in history before
\* the load and differs from the loaded one.
C17_LoadIsNotUndoable ==
    track.stage = "loaded"
    => /\ Grid = track.grid
       /\ \A g \in track.before : g # track.grid => Grid # g

\* C17 witness: a load made on a history that held two grids other than the
\* loaded one has been followed by undo and redo calls
C17_Witness ==
    /\ track.stage = "loaded"
    /\ track.undone
    /\ track.redone
    /\ Cardinality(track.before \ {track.grid}) >= 2
    /\ Grid = track.grid

\* C18: exportPattern() is a pure read: it leaves cells, history (its
\* objects and their contents), historyPointer, metadata, selectedColorId,
\* activeTool, viewMode, board and palette as they are.
C18_ExportIsPureRead ==
    [][ (track'.stage = "exported") => UNCHANGED storeVars ]_vars

\* C18 witness: exportPattern has returned a pattern of a non-empty grid, with
\* a refreshed creation time, in the middle of a full history
C18_Witness ==
    /\ track.stage = "exported"
    /\ track.returned.cells # EmptyMap
    /\ track.returned.metadata.created # metadata.created
    /\ Len(history) = 3
    /\ historyPointer = 1

\* C19: the pattern exportPattern() returns has a cell record with exactly
\* the keys and colour ids of the live grid and the metadata of the store
\* but for `created`; loadPattern called with that pattern, at once or after
\* another call, publishes a grid equal to the grid that was exported.
C19_ExportLoadRoundTrip ==
    /\ track.stage = "exported"
       => /\ DOMAIN track.returned.cells = DOMAIN Grid
          /\ \A k \in DOMAIN Grid : track.returned.cells[k] = Grid[k]
          /\ DOMAIN track.returned.metadata = DOMAIN metadata
          /\ \A f \in (DOMAIN metadata) \ {"created"} :
                track.returned.metadata[f] = metadata[f]
    /\ track.stage = "reloaded" => Grid = track.grid

\* C19 witness: a pattern exported from a grid with cells has been loaded
\* after a call that had changed the live grid
C19_Witness ==
    /\ track.stage = "reloaded"
    /\ track.between
    /\ track.grid # EmptyMap
    /\ Grid = track.grid
    /\ metadata = track.returned.metadata

\* C20: clearBoard() always publishes the empty grid and makes history the
\* entries up to the old pointer followed by exactly one new snapshot, that
\* empty grid, with the pointer on it; also when the grid was empty already.
C20_ClearBoardAlwaysAppends ==
    [][ (last'.op = "clearBoard")
        => /\ Grid' = EmptyMap
           /\ Len(history') = historyPointer + 2
           /\ historyPointer' = historyPointer + 1
           /\ history'[Len(history')] = cells'
           /\ \A i \in 1 .. historyPointer + 1 :
                 /\ history'[i] = history[i]
                 /\ history'[i] # cells'
                 /\ heap'[history[i]] = heap[history[i]] ]_vars

\* C20 witness: clearBoard called on an empty grid, one undo deep in a full
\* history, has replaced the redoable entry by a second empty snapshot
C20_Witness ==
    /\ last.op = "clearBoard"
    /\ last.changed
    /\ last.prePointer = 1
    /\ last.preLength = 3
    /\ Len(history) = 3
    /\ historyPointer = 2
    /\ Snapshots[2] = EmptyMap
    /\ Grid = EmptyMap
    /\ history[3] # history[2]

\* the keys of the grid g that are not keys of positions of the board b
KeysOutside(g, b) == {k \in DOMAIN g : ~DecodesToPosition(k, b)}

\* C21: a setCell(x,y) or fill(x,y) called with (x,y) outside the board,
\* with any tool and colour, creates no key for a position outside the
\* board, neither in cells nor in any history snapshot.
C21_OutOfBoundsCreatesNoKey ==
    [][ (/\ last'.op \in {"setCell", "fill"}
         /\ ~InBounds(<<last'.x, last'.y>>, board))
        => /\ KeysOutside(Grid', board) \subseteq KeysOutside(Grid, board)
           /\ \A i \in 1 .. Len(history') :
                 \/ KeysOutside(Snapshots'[i], board) \subseteq KeysOutside(Grid, board)
                 \/ (i <= Len(history) /\ Snapshots'[i] = Snapshots[i]) ]_vars

\* C22: setColor(id), setTool(tool) and setViewMode(mode) change only
\* selectedColorId, activeTool and viewMode respectively (cells, history and
\* historyPointer stay as they are), and a sequence of engine calls made
\* from the same state ends in the same engine state whatever the view
\* modes it was made under.
C22_SettersFrameAndViewModeIrrelevant ==
    [][ /\ (last'.op = "setColor")
           => /\ selectedColorId' = last'.arg
              /\ UNCHANGED <<board, palette, metadata, activeTool, viewMode,
                             heap, cells, history, historyPointer>>
        /\ (last'.op = "setTool")
           => /\ activeTool' = last'.arg
              /\ UNCHANGED <<board, palette, metadata, selectedColorId, viewMode,
                             heap, cells, history, historyPointer>>
        /\ (last'.op = "setViewMode")
           => /\ viewMode' = last'.arg
              /\ UNCHANGED <<board, palette, metadata, selectedColorId, activeTool,
                             heap, cells, history, historyPointer>>
        /\ (track'.phase = "replay" /\ track'.pos = Len(track'.trace))
           => Engine' = track'.outcome ]_vars

\* C22 witness: three engine calls that built a history of three entries
\* have been made a second time, the last of them a setCell made under a
\* view mode other than the one the first run ended under
C22_Witness ==
    /\ track.phase = "replay"
    /\ track.pos = 3
    /\ Len(track.trace) = 3
    /\ last.op = "setCell"
    /\ last.changed
    /\ viewMode # track.outcomeView
    /\ Len(history) = 3
    /\ Engine = track.outcome

\* C23: for all integers x, y in [0,1000), parseKey(makeKey(x,y)) is
\* {x, y}; hence no other position has the key of (x,y).
C23_CodecRoundTrip ==
    /\ track.stage = "decoded"
       => track.parsed = [x |-> NumberValue(track.x), y |-> NumberValue(track.y)]
    /\ track.stage = "encoded"
       => \A p \in CodecSample \X CodecSample :
             makeKey(p[1], p[2]) = track.key => p = <<track.x, track.y>>

\* C23 witness: the key of (101, 999), seven characters long, has been
\* decoded to 101 and 999
C23_Witness ==
    /\ track.stage = "decoded"
    /\ track.x = 101
    /\ track.y = 999
    /\ Len(track.key) = 7
    /\ track.parsed.x.value = 101
    /\ track.parsed.y.value = 999

\* C24: in every reachable state every key of cells maps to the id of an
\* entry of the palette, whatever setColor, setCell, fill, clearBoard, undo,
\* redo and loadPattern calls were made.
C24_CellsHoldPaletteIds ==
    \A k \in DOMAIN Grid : \E i \in 1 .. Len(palette) : palette[i] = Grid[k]

\* C25: while a fill runs, the published cells grid and every history
\* snapshot is the complete grid from before the fill; once the fill has
\* published, cells is the complete filled grid and the snapshots are the
\* grid from before and the filled grid.  The grids in between, built cell
\* by cell, are never what the store holds.
C25_NoPartialFillObservable ==
    /\ track.pc = "loop"
       => /\ Grid = track.pre
          /\ \A i \in 1 .. Len(history) : Snapshots[i] = track.pre
    /\ (track.pc = "idle" /\ Len(history) = 2)
       => /\ Grid = track.post
          /\ Snapshots = <<track.pre, track.post>>

\* C25 witness: a fill is three passes into its loop; the Map it works on is
\* neither the grid from before nor the filled grid, and the store still
\* publishes the grid from before
C25_Witness ==
    /\ track.pc = "loop"
    /\ track.passes >= 3
    /\ heap[track.ref] # track.pre
    /\ heap[track.ref] # track.post
    /\ Grid = track.pre
    /\ track.ref # cells

\* the tool of the second run that stands for tool t of the first run
ToolOfSecondRun(t) == IF t = "pencil" THEN track.tool ELSE t

\* C26: a session of setCell, setColor, setTool and undo calls made with the
\* line tool (or the fill tool) wherever the first run had the pencil ends
\* with exactly the cells, history and historyPointer of the first run;
\* only the eraser selects the erase behaviour.
C26_LineToolIsPencil ==
    (track.phase = "replay" /\ track.pos = Len(track.trace))
    => /\ [Engine EXCEPT !.activeTool = "pencil"]
              = [track.outcome EXCEPT !.activeTool = "pencil"]
       /\ activeTool = ToolOfSecondRun(track.outcome.activeTool)

\* C26 witness: a run whose setCell calls painted two cells with the pencil
\* has been made again with the line tool and has ended with the same
\* history of three entries
C26_Witness ==
    /\ track.phase = "replay"
    /\ track.pos = Len(track.trace)
    /\ track.tool = "line"
    /\ activeTool = "line"
    /\ track.outcome.activeTool = "pencil"
    /\ last.op = "setCell"
    /\ last.changed
    /\ Len(history) = 3
    /\ Cardinality(DOMAIN Grid) >= 2
    /\ history = track.outcome.history
    /\ heap = track.outcome.heap

\* the cell under the pixel p of the canvas
PixelCell(p) == Editor2D_grid(p[1], p[2])

\* C27: a pointer-down of the main button on a cell of the board in the 2D
\* editor with the line tool active has the effect on the engine state that
\* the same pointer-down has with the pencil: the effect of setCell on that
\* cell, which for the line tool is that of the pencil.
C27_LinePointerDownPaints ==
    [][ \A p \in PointerPixels :
           (/\ activeTool = "line"
            /\ InBounds(PixelCell(p), board)
            /\ Len(history) < MaxHistory
            /\ Editor2D_handlePointerDown(0, p[1], p[2]))
           => setCell(PixelCell(p)[1], PixelCell(p)[2]) ]_vars

\* the number of assignments the loop of fill has made so far
RECURSIVE SumOf(_, _)
SumOf(f, S) ==
    IF S = {} THEN 0
    ELSE LET k == CHOOSE kk \in S : TRUE IN f[k] + SumOf(f, S \ {k})

FillAssignments == SumOf(track.assigned, DOMAIN track.assigned)

\* C28: fill terminates on every grid and start position: its loop sets
\* each cell of the board at most once (at most cols*rows assignments in
\* all, none at a position outside the board), and a loop that has begun
\* reaches an empty work list, after which the result is published.
C28_FillTerminates ==
    /\ [](/\ \A k \in DOMAIN track.assigned :
                /\ track.assigned[k] <= 1
                /\ DecodesToPosition(k, board)
          /\ FillAssignments <= board.cols * board.rows)
    /\ (track.pc = "loop") ~> (track.pc = "loop" /\ track.queue = <<>>)
    /\ (track.pc = "loop") ~> (track.pc = "idle" /\ Len(history) = 2)

\* C28 witness: a fill from the middle of the full 3x3 board has ended and
\* is published; it set all nine cells, once each, and made more passes than
\* assignments (positions outside the board and visited ones were taken off
\* the work list too).
C28_Witness ==
    /\ track.pc = "idle"
    /\ Len(history) = 2
    /\ track.start = <<1, 1>>
    /\ track.queue = <<>>
    /\ FillAssignments = board.cols * board.rows
    /\ track.passes > FillAssignments
    /\ Grid = track.post

\* C29: fill is order independent: whichever pending position each pass
\* takes off the work list and in whichever order it pushes the four
\* neighbours, the grid the loop ends with, and the grid then published, is
\* the grid the loop of the code produces from the same grid, start position
\* and selected colour.
C29_FillOrderIndependent ==
    /\ (track.pc = "loop" /\ BagToSet(track.queue) = {})
       => heap[track.ref] = track.post
    /\ (track.pc = "idle" /\ Len(history) = 2)
       => /\ Grid = track.post
          /\ Snapshots = <<track.pre, track.post>>

\* C29 witness: a fill that coloured its cells in another order than the
\* loop of the code does has ended and is published; it coloured three
\* cells and left the fourth.
C29_Witness ==
    /\ track.pc = "idle"
    /\ Len(history) = 2
    /\ track.offCode
    /\ Cardinality(track.visited) = 3
    /\ Cardinality(DOMAIN Grid) = 4
    /\ Grid # track.pre

\* a step of the store that is an engine write at a position of the board
WriteInsideBoard ==
    \/ \E c \in Positions(board) : setCell(c[1], c[2])
    \/ \E c \in Positions(board) : fill(c[1], c[2])

\* C30: the presentation layer checks the bounds before every engine write.
\* In a session of the 2D editor and the 3D scene, from the empty grid, in
\* which the grid is written through Editor2D.handleInteract and
\* Scene3D.handlePointerDown only, every step that changes cells is a
\* clearBoard, an undo, a redo, or a setCell or fill at a position with
\* 0 <= x < board.cols and 0 <= y < board.rows; and every key of cells and
\* of every history snapshot is a position of the board.
C30_PresentationLayerChecksBounds ==
    /\ [](/\ KeysOutside(Grid, board) = {}
          /\ \A i \in 1 .. Len(history) : KeysOutside(Snapshots[i], board) = {})
    /\ [][ cells' # cells
           => (clearBoard \/ undo \/ redo \/ WriteInsideBoard) ]_vars

\* C30 witness: the history is full after writes made through the pointer
\* handlers; the grid holds the two corner cells of the board and the 3D
\* scene is the mounted view.
C30_Witness ==
    /\ viewMode = "3D"
    /\ Len(history) = MaxHistory
    /\ historyPointer = MaxHistory - 1
    /\ DOMAIN Grid = {makeKey(0, 0), makeKey(Cols - 1, Rows - 1)}
    /\ \E i \in 1 .. Len(history) : Snapshots[i] # Grid

\* C31: a fill(x,y) with (x,y) outside the board is ignored: cells, history
\* (its length too) and historyPointer are left as they are.
C31_FillOutsideBoardIsIgnored ==
    [][ (/\ last'.op = "fill"
         /\ ~InBounds(<<last'.x, last'.y>>, board))
        => /\ Grid' = Grid
           /\ Snapshots' = Snapshots
           /\ historyPointer' = historyPointer ]_vars

\* C32: a restored pattern survives undo: when the store starts with a
\* non-empty grid taken from storage, one edit that pushes a snapshot
\* followed by undo() brings cells back to the restored grid.
C32_RestoredPatternSurvivesUndo ==
    (track.stage = "undone" /\ track.grid # EmptyMap) => Grid = track.grid

DispatchByTool(c) ==
    /\ activeTool = "fill" => fill(c[1], c[2])
    /\ activeTool \in {"pencil", "eraser"} => setCell(c[1], c[2])

\* a pointer-move on the board cell c: setCell while a drag is in progress
\* with 'pencil' or 'eraser', and no engine call otherwise
MoveDispatch(c) ==
    IF track.isDragging /\ activeTool \in {"pencil", "eraser"}
    THEN setCell(c[1], c[2])
    ELSE UNCHANGED storeVars

\* C34 as stated: Editor2D dispatches by tool.  A pointer-down on a cell of
\* the board is one fill(x,y) when the tool is 'fill' and one setCell(x,y)
\* when it is 'pencil' or 'eraser'; a pointer-move is a setCell(x,y) only
\* while a drag is in progress with 'pencil' or 'eraser', and never a fill.
C34_EditorDispatchesByTool ==
    [][ \A p \in PointerPixels :
           InBounds(PixelCell(p), board)
           => /\ \A b \in Buttons :
                    Editor2D_handlePointerDown(b, p[1], p[2])
                    => DispatchByTool(PixelCell(p))
              /\ Editor2D_handlePointerMove(p[1], p[2])
                    => MoveDispatch(PixelCell(p)) ]_vars

\* C34 amended: the same, for a pointer-down of any button but the middle
\* one; a pointer-down of the middle button makes no engine call.
C34_EditorDispatchesByToolButMiddleButton ==
    [][ \A p \in PointerPixels :
           InBounds(PixelCell(p), board)
           => /\ \A b \in Buttons \ {1} :
                    Editor2D_handlePointerDown(b, p[1], p[2])
                    => DispatchByTool(PixelCell(p))
              /\ Editor2D_handlePointerDown(1, p[1], p[2]) => UNCHANGED storeVars
              /\ Editor2D_handlePointerMove(p[1], p[2])
                    => MoveDispatch(PixelCell(p)) ]_vars

\* C34 witness: a pointer-down of the main button with the fill tool on a
\* corner of the empty board has filled the whole board in one step of the
\* history.
C34_Witness ==
    /\ activeTool = "fill"
    /\ track.isDragging
    /\ Cardinality(DOMAIN Grid) = Cols * Rows
    /\ historyPointer = 1
    /\ Len(history) = 2

\* the peg nearest to the hit point h (in half pitches from the first peg)
HitPeg(h) == <<Floor(h[1] + 1, 2), Floor(h[2] + 1, 2)>>

\* the positions at which two grids differ
CellsChanged(g1, g2) ==
    {k \in (DOMAIN g1) \cup (DOMAIN g2) : MapGet(g1, k) # MapGet(g2, k)}

\* C35: in the interactive 3D scene a pointer-down whose nearest peg is on
\* the board is one setCell(col,row), with every tool (never a fill); in a
\* scene that is not interactive a pointer-down makes no engine call; so a
\* click in the 3D scene changes at most one cell.
C35_SceneClickIsOneSetCell ==
    [][ \A h \in HitHalfPitches :
           Scene3D_handlePointerDown(track.interactive, h[1], h[2])
           => /\ (track.interactive /\ InBounds(HitPeg(h), board))
                    => setCell(HitPeg(h)[1], HitPeg(h)[2])
              /\ ~track.interactive => UNCHANGED storeVars
              /\ Cardinality(CellsChanged(Grid, Grid')) <= 1
              /\ CellsChanged(Grid, Grid') \subseteq {makeKey(HitPeg(h)[1], HitPeg(h)[2])} ]_vars

\* C35 witness: the latest click, made with the fill tool on the empty board
\* of an interactive scene, half a pitch away from the last peg, coloured
\* that one cell and appended one history entry.
C35_Witness ==
    /\ track.interactive
    /\ last.op = "click"
    /\ last.tool = "fill"
    /\ activeTool = "fill"
    /\ last.prePointer = 0
    /\ historyPointer = 1
    /\ Len(history) = 2
    /\ DOMAIN Grid = {makeKey(HitPeg(last.hit)[1], HitPeg(last.hit)[2])}

\* the pegs of colour id drawn on the grid of a sheet
DrawnPegs(sheet, id) == {m \in sheet.marks : m.shape = "peg" /\ m.color = id}

\* C36: on every downloaded sheet, for every palette colour, the piece
\* count printed in the legend equals the number of pegs of that colour
\* drawn on the grid
C36_LegendCountsEqualDrawnPegs ==
    track.sheet # NoSheet =>
        \A i \in DOMAIN palette :
            \A line \in track.sheet.legend :
                line.id = palette[i] =>
                    line.pcs = Cardinality(DrawnPegs(track.sheet, palette[i]))

====
